---- MODULE Spec2Model ----
(***************************************************************************)
(* Model of the reconciliation pipeline of PG2.py (Diesel Generator Run    *)
(* Hour Analysis): reference normalisation, duration detection, window     *)
(* filter, M/G tagging, aggregation, summary metrics, justification,       *)
(* category and KPI roll-ups.                                              *)
(*                                                                         *)
(* Tables are sequences of records.  Text cells the code edits or         *)
(* searches (site identifiers, alarm slogans, column names) are sequences  *)
(* of one-character strings, on which normalize_site and the regular       *)
(* expressions are evaluated character by character.                       *)
(* Timestamps are integer ticks (TicksPerDay ticks to a day); durations    *)
(* and claimed run hours are integers; values pandas keeps as floats that  *)
(* may be NaN or infinite are records (see Num, Inf, NegInf, NaNf).        *)
(***************************************************************************)
EXTENDS Integers, Sequences, FiniteSets, TLC

\* ------------------------------------------------------------------ bounds
MaxRef == 2
MaxAlarms == 2
TicksPerDay == 2

\* --------------------------------------------------------- missing values
\* np.nan in an object column (a site identifier or a site key)
NaN == <<"NaN">>
\* the integer 0 that DataFrame.fillna(0) writes over a missing text cell
Zero == <<"0">>
\* pd.NaT, the missing timestamp
NaT == 0 - 999
\* a date cell pd.to_datetime(errors="coerce") cannot parse
Unparseable == 0 - 1
\* a cell pd.to_numeric(errors="coerce") cannot parse
NonNumeric == 0 - 1

\* ------------------------------------------------------------------ floats
\* float64 values as pandas computes them: a finite rational n/d (d > 0),
\* +inf, -inf or NaN.
Num(n, d) == [k |-> "num", n |-> n, d |-> d]
Inf == [k |-> "inf", n |-> 1, d |-> 1]
NegInf == [k |-> "ninf", n |-> 0 - 1, d |-> 1]
NaNf == [k |-> "nan", n |-> 0, d |-> 1]

\* a / b on float columns: x/0 is +-inf, 0/0 is NaN (no exception)
FDiv(a, b) ==
    IF b = 0
    THEN IF a > 0 THEN Inf ELSE IF a < 0 THEN NegInf ELSE NaNf
    ELSE IF b > 0 THEN Num(a, b) ELSE Num(0 - a, 0 - b)

\* 1 - x
FOneMinus(x) ==
    CASE x.k = "num" -> Num(x.d - x.n, x.d)
      [] x.k = "inf" -> NegInf
      [] x.k = "ninf" -> Inf
      [] OTHER -> NaNf

\* x * c for a positive integer c
FScale(x, c) == IF x.k = "num" THEN Num(x.n * c, x.d) ELSE x

\* Series.clip(lo, hi): NaN stays NaN
FClip(x, lo, hi) ==
    CASE x.k = "nan" -> NaNf
      [] x.k = "inf" -> Num(hi, 1)
      [] x.k = "ninf" -> Num(lo, 1)
      [] OTHER -> IF x.n < lo * x.d THEN Num(lo, 1)
                  ELSE IF x.n > hi * x.d THEN Num(hi, 1)
                  ELSE x

\* Series.fillna(0)
FFillna0(x) == IF x.k = "nan" THEN Num(0, 1) ELSE x

\* abs(x) <= c, False when x is NaN
FAbsLE(x, c) ==
    CASE x.k = "num" -> (x.n <= c * x.d) /\ (0 - x.n <= c * x.d)
      [] OTHER -> FALSE

Abs(i) == IF i < 0 THEN 0 - i ELSE i

\* ------------------------------------------------------------ text helpers
LowerCase == <<"a","b","c","d","e","f","g","h","i","j","k","l","m",
               "n","o","p","q","r","s","t","u","v","w","x","y","z">>
UpperCase == <<"A","B","C","D","E","F","G","H","I","J","K","L","M",
               "N","O","P","Q","R","S","T","U","V","W","X","Y","Z">>
Digits == {"0","1","2","3","4","5","6","7","8","9"}

Range(s) == {s[i] : i \in DOMAIN s}

LowerSet == Range(LowerCase)
UpperSet == Range(UpperCase)

\* str.upper() on one character
Upper(c) ==
    IF c \in LowerSet
    THEN UpperCase[CHOOSE i \in DOMAIN LowerCase : LowerCase[i] = c]
    ELSE c

\* the character class [A-Za-z0-9_]
WordChars == LowerSet \cup UpperSet \cup Digits \cup {"_"}

IsWordChar(c) == c \in WordChars

RECURSIVE Flatten(_)
Flatten(ss) == IF ss = <<>> THEN <<>> ELSE Head(ss) \o Flatten(Tail(ss))

RECURSIVE SumSeq(_)
SumSeq(s) == IF s = <<>> THEN 0 ELSE Head(s) + SumSeq(Tail(s))

\* sorted(set): ascending sequence of the elements of a finite set of integers
RECURSIVE SortedSeq(_)
SortedSeq(S) ==
    IF S = {} THEN <<>>
    ELSE LET m == CHOOSE x \in S : \A y \in S : x <= y
         IN <<m>> \o SortedSeq(S \ {m})

SeqUpTo(S, n) == UNION {[1..k -> S] : k \in 0..n}

\* ---------------------------------------------------------- normalize_site
\* the three str.replace calls of line 107, on one character
ZapInvisible(c) ==
    IF c \in {"nbsp", "zwsp"} THEN <<>> ELSE IF c = "-" THEN <<"_">> ELSE <<c>>

normalize_site(v) ==
    IF v = NaN THEN NaN
    ELSE LET s1 == Flatten([i \in DOMAIN v |-> ZapInvisible(v[i])])
             s2 == SelectSeq(s1, IsWordChar)
             s3 == [i \in DOMAIN s2 |-> Upper(s2[i])]
         IN IF s3 # <<>> THEN s3 ELSE NaN

\* ------------------------------------------------- regular expressions
\* A pattern is a sequence of lower-case characters and the two tokens
\* SPACES (\s*) and BOUNDARY (\b); the search is case-insensitive.
SPACES == "\\s*"
BOUNDARY == "\\b"

Lower(c) ==
    IF c \in UpperSet
    THEN LowerCase[CHOOSE i \in DOMAIN UpperCase : UpperCase[i] = c]
    ELSE c

IsSpace(c) == c \in {" ", "nbsp"}

WordBoundary(t, i) ==
    ((i > 1) /\ IsWordChar(t[i - 1])) # ((i <= Len(t)) /\ IsWordChar(t[i]))

RECURSIVE MatchHere(_, _, _)
MatchHere(p, t, i) ==
    IF p = <<>> THEN TRUE
    ELSE CASE Head(p) = SPACES ->
                 \/ MatchHere(Tail(p), t, i)
                 \/ (i <= Len(t) /\ IsSpace(t[i]) /\ MatchHere(p, t, i + 1))
           [] Head(p) = BOUNDARY ->
                 WordBoundary(t, i) /\ MatchHere(Tail(p), t, i)
           [] OTHER ->
                 i <= Len(t) /\ Lower(t[i]) = Head(p) /\ MatchHere(Tail(p), t, i + 1)

\* re.search(p, t, re.I) for one alternative p
Search(p, t) == \E i \in 1..(Len(t) + 1) : MatchHere(p, t, i)

\* Series.str.contains(alternatives, case=False, na=False)
str_contains(t, alternatives) ==
    IF t = NaN THEN FALSE ELSE \E p \in alternatives : Search(p, t)

mg_mains ==
    { <<"m","a","i","n","s">>,
      <<"a","c",SPACES,"m","a","i","n","s">>,
      <<"g","r","i","d",SPACES,"f","a","i","l">>,
      <<"g","r","i","d",SPACES,"d","o","w","n">> }

mg_gen ==
    { <<"g","e","n","s","e","t">>,
      <<"g","e","n","e","r","a","t","o","r">>,
      <<"d","g",BOUNDARY>>,
      <<"d","i","e","s","e","l",SPACES,"g","e","n">> }

\* ---------------------------------------------------------------- columns
ColumnChars(c) ==
    CASE c = "site" -> <<"s","i","t","e">>
      [] c = "alarm_slogan" -> <<"a","l","a","r","m","_","s","l","o","g","a","n">>
      [] c = "alarm_raised_date" ->
            <<"a","l","a","r","m","_","r","a","i","s","e","d","_","d","a","t","e">>
      [] c = "duration_hrs" -> <<"d","u","r","a","t","i","o","n","_","h","r","s">>
      [] c = "__source_file__" ->
            <<"_","_","s","o","u","r","c","e","_","f","i","l","e","_","_">>

\* column order of the concatenated alarm frame (read_any adds __source_file__ last)
AlarmColumnOrder ==
    <<"site", "alarm_slogan", "alarm_raised_date", "duration_hrs", "__source_file__">>

possible_keywords ==
    { <<"d","u","r","a","t","i","o","n">>, <<"d","u","r">>, <<"h","r","s">>,
      <<"h","o","u","r","s">>, <<"r","u","n","t","i","m","e">>,
      <<"r","u","n","_","t","i","m","e">>, <<"r","h">> }

preferred_patterns ==
    { <<"d","u","r","a","t","i","o","n">>,
      <<"d","u","r","a","t","i","o","n","_","h","r","s">>,
      <<"d","u","r","a","t","i","o","n","h","r">>,
      <<"d","u","r","_","h","r","s">> }

required_cols == <<"site", "alarm_slogan", "alarm_raised_date">>

AllRefColumns ==
    {"site_id", "previous_refuelling_date", "present_refuelling_date", "claimed_rh"}
AllAlarmColumns == {"site", "alarm_slogan", "alarm_raised_date", "duration_hrs"}

\* ----------------------------------------------------------------- state
VARIABLES
    uploaded,    \* both uploaders hold a file and Process Data was pressed
    ref_file,    \* reference file as read: [columns, rows]
    main_files,  \* alarm file(s) as read and concatenated: [columns, rows]
    pc,          \* position of the script
    error,       \* the error shown, "" if none
    df_ref,      \* normalised, deduplicated reference table
    df_all,      \* alarm table after conversion
    merged,      \* windowed, tagged alarm records
    df_out,      \* summary table
    raw,         \* raw table
    agg,         \* per-site totals by alarm type
    kpi          \* KPI values

vars == <<uploaded, ref_file, main_files, pc, error, df_ref, df_all, merged,
          agg, df_out, raw, kpi>>

NoKpi == [total_sites |-> 0 - 1]

\* ------------------------------------------------------------ conversions
\* pd.to_datetime(errors="coerce", dayfirst=True): a tick, or NaT
to_datetime(v) == IF v >= 0 THEN v ELSE NaT

\* pd.to_numeric(errors="coerce").fillna(0)
to_numeric_fillna0(v) == IF v = NonNumeric THEN 0 ELSE v

\* (present - previous).dt.days.fillna(0).astype(int): Timedelta.days is the
\* floor of the difference in days; a NaT operand gives NaN, filled with 0
day_difference(previous, present) ==
    IF previous = NaT \/ present = NaT THEN 0
    ELSE (present - previous) \div TicksPerDay

HoursPerDay == 24

total_available_hr(dd) == dd * HoursPerDay

\* np.where(day_difference > 0, claimed_rh / day_difference, 0)
average_dgrh(claimed, dd) == IF dd > 0 THEN Num(claimed, dd) ELSE Num(0, 1)

\* ------------------------------------------- reference normalisation
\* columns after the renames of lines 211-222
RefColumns(cols) ==
    IF "site_id" \notin cols /\ "site" \in cols
    THEN (cols \ {"site"}) \cup {"site_id"}
    ELSE cols

RefRow(r, cols) ==
    LET prev == IF "previous_refuelling_date" \in cols
                THEN to_datetime(r.previous_refuelling_date) ELSE NaT
        pres == IF "present_refuelling_date" \in cols
                THEN to_datetime(r.present_refuelling_date) ELSE NaT
        dd == day_difference(prev, pres)
        claimed == to_numeric_fillna0(r.claimed_rh)
    IN [ site_id |-> r.site_id,
         site_key |-> normalize_site(r.site_id),
         previous_refuelling_date |-> prev,
         present_refuelling_date |-> pres,
         day_difference |-> dd,
         total_available_hr |-> total_available_hr(dd),
         claimed_rh |-> claimed,
         average_dgrh |-> average_dgrh(claimed, dd) ]

\* mutant: duplicate keys are kept
drop_duplicates_None(rows) ==
    [i \in DOMAIN rows |-> [row |-> rows[i], first |-> TRUE]]

\* drop_duplicates("__site_key__", keep="first"); missing keys count as equal
drop_duplicates(rows) ==
    SelectSeq([i \in DOMAIN rows |->
                  [row |-> rows[i],
                   first |-> \A j \in 1..(i - 1) : rows[j].site_key # rows[i].site_key]],
              LAMBDA x : x.first)

NormalizedReference(file) ==
    LET cols == RefColumns(file.columns)
        rows == [i \in DOMAIN file.rows |-> RefRow(file.rows[i], cols)]
        kept == drop_duplicates(rows)
    IN [i \in DOMAIN kept |-> kept[i].row]

\* ------------------------------------------------------ duration detection
Dedup(s) ==
    SelectSeq([i \in DOMAIN s |->
                  [c |-> s[i], first |-> \A j \in 1..(i - 1) : s[j] # s[i]]],
              LAMBDA x : x.first)

ColumnsOf(file) ==
    SelectSeq(AlarmColumnOrder,
              LAMBDA c : c \in file.columns \cup {"__source_file__"})

keyword_matches(file) ==
    SelectSeq(ColumnsOf(file),
              LAMBDA c : \E k \in possible_keywords : Search(k, ColumnChars(c)))

\* numeric columns with a value and a non-zero absolute sum; the text columns
\* and the file tag are never numeric
numeric_valid(file) ==
    SelectSeq(ColumnsOf(file),
              LAMBDA c : /\ c = "duration_hrs"
                         /\ \A i \in DOMAIN file.rows :
                                file.rows[i].duration_hrs # NonNumeric
                         /\ \E i \in DOMAIN file.rows :
                                file.rows[i].duration_hrs # 0)

candidates(file) ==
    LET both == Dedup(keyword_matches(file) \o numeric_valid(file))
    IN [i \in DOMAIN both |-> both[i].c]

\* defined when candidates(file) is not empty
dur_col(file) ==
    LET cand == candidates(file)
        pref == SelectSeq(cand,
                    LAMBDA c : \E p \in preferred_patterns : Search(p, ColumnChars(c)))
    IN IF Len(cand) = 1 THEN cand[1]
       ELSE IF pref # <<>> THEN pref[1] ELSE cand[1]

\* mutant: only the site column is required
missing_cols_SiteOnly(file) ==
    SelectSeq(<<"site">>, LAMBDA c : c \notin file.columns)

missing_cols(file) == SelectSeq(required_cols, LAMBDA c : c \notin file.columns)

AlarmRow(r, dcol) ==
    [ site |-> r.site,
      alarm_slogan |-> r.alarm_slogan,
      alarm_raised_date |-> to_datetime(r.alarm_raised_date),
      duration_hrs |-> to_numeric_fillna0(r[dcol]),
      site_key |-> normalize_site(r.site) ]

ConvertedAlarms(file) ==
    [i \in DOMAIN file.rows |-> AlarmRow(file.rows[i], dur_col(file))]

\* ------------------------------------------- merge, window filter, tagging
\* DataFrame.merge joins equal keys; two missing keys are joined as well
KeyMatch(a, r) == a.site_key = r.site_key

\* df_all.merge(df_ref[[key, previous, present]], on=key, how="inner")
inner_merge(alarms, refs) ==
    Flatten([i \in DOMAIN alarms |->
        LET hits == SelectSeq(refs, LAMBDA r : KeyMatch(alarms[i], r))
        IN [j \in DOMAIN hits |->
               [ site |-> alarms[i].site,
                 alarm_slogan |-> alarms[i].alarm_slogan,
                 alarm_raised_date |-> alarms[i].alarm_raised_date,
                 duration_hrs |-> alarms[i].duration_hrs,
                 site_key |-> alarms[i].site_key,
                 previous_refuelling_date |-> hits[j].previous_refuelling_date,
                 present_refuelling_date |-> hits[j].present_refuelling_date ]]])

\* a comparison with NaT is False
GE(a, b) == a # NaT /\ b # NaT /\ a >= b
LE(a, b) == a # NaT /\ b # NaT /\ a <= b

\* mutant: the upper bound is exclusive
mask_UpperExclusive(m) ==
    /\ GE(m.alarm_raised_date, m.previous_refuelling_date)
    /\ LE(m.alarm_raised_date, m.present_refuelling_date)
    /\ m.alarm_raised_date # m.present_refuelling_date

mask(m) ==
    /\ GE(m.alarm_raised_date, m.previous_refuelling_date)
    /\ LE(m.alarm_raised_date, m.present_refuelling_date)

\* the two .loc assignments of lines 300-301, in their order
mg(slogan) ==
    LET mg0 == "NA"
        mg1 == IF str_contains(slogan, mg_mains) THEN "M" ELSE mg0
        mg2 == IF str_contains(slogan, mg_gen) THEN "G" ELSE mg1
    IN mg2

Tagged(m) ==
    [ site |-> m.site,
      alarm_slogan |-> m.alarm_slogan,
      alarm_raised_date |-> m.alarm_raised_date,
      duration_hrs |-> m.duration_hrs,
      site_key |-> m.site_key,
      previous_refuelling_date |-> m.previous_refuelling_date,
      present_refuelling_date |-> m.present_refuelling_date,
      mg |-> mg(m.alarm_slogan) ]

Windowed(alarms, refs) ==
    LET kept == SelectSeq(inner_merge(alarms, refs), mask)
    IN [i \in DOMAIN kept |-> Tagged(kept[i])]

\* ------------------------------------------------------------ aggregation
\* groupby([key, mg]) drops the rows whose key or tag is missing
Grouped(m) == SelectSeq(m, LAMBDA x : x.site_key # NaN /\ x.mg # "NA")

GroupSum_AnyTag(m, key, tag) ==
    LET rows == SelectSeq(m, LAMBDA x : x.site_key = key)
    IN SumSeq([i \in DOMAIN rows |-> rows[i].duration_hrs])

GroupSum(m, key, tag) ==
    LET rows == SelectSeq(Grouped(m), LAMBDA x : x.site_key = key /\ x.mg = tag)
    IN SumSeq([i \in DOMAIN rows |-> rows[i].duration_hrs])

\* .sum().unstack(fill_value=0), columns renamed: one row per grouped key,
\* one column per tag that occurs
Aggregate(m) ==
    [ index |-> {x.site_key : x \in Range(Grouped(m))},
      columns |-> {x.mg : x \in Range(Grouped(m))} ]

\* the cell of one summary row after the left merge, fillna(0) and
\* df_out.get(column, 0)
AggCell(m, a, key, tag) ==
    IF tag \in a.columns /\ key \in a.index THEN GroupSum(m, key, tag) ELSE 0

\* ---------------------------------------------------------------- metrics
\* mutant: the missing value of 0/0 is not filled
grid_availability_pct_NoFillna(actual, total) ==
    FClip(FScale(FOneMinus(FDiv(actual, total)), 100), 0, 100)

grid_availability_pct(actual, total) ==
    FFillna0(FClip(FScale(FOneMinus(FDiv(actual, total)), 100), 0, 100))

pct_of_rh_difference(diff, claimed) ==
    IF claimed # 0 THEN FScale(FDiv(diff, claimed), 100) ELSE NaNf

MatchTolerance == 5

\* mutant: both tests must pass
matching_rh_Both(pct, diff) ==
    IF FAbsLE(pct, MatchTolerance) /\ Abs(diff) <= MatchTolerance
    THEN "Yes" ELSE "No"

matching_rh(pct, diff) ==
    IF FAbsLE(pct, MatchTolerance) \/ Abs(diff) <= MatchTolerance
    THEN "Yes" ELSE "No"

\* ------------------------------------------------------------- raw table
DgRhThreshold == 10

IsDg10(alarm_type, duration_hr) ==
    alarm_type = "G" /\ duration_hr >= DgRhThreshold

RawTable(m) ==
    [i \in DOMAIN m |->
        [ site_id |-> m[i].site,
          date |-> m[i].alarm_raised_date,
          duration_hr |-> m[i].duration_hrs,
          alarm_slogan |-> m[i].alarm_slogan,
          alarm_type |-> m[i].mg,
          dg_rh_ge_10 |-> IF IsDg10(m[i].mg, m[i].duration_hrs)
                          THEN [flag |-> "value", value |-> m[i].duration_hrs]
                          ELSE [flag |-> "No", value |-> 0] ]]

\* strftime("%Y-%m-%d"): the day of a timestamp
DayOf(t) == t \div TicksPerDay

\* groupby("site_id") of the qualifying raw rows: a missing site_id is dropped
Dg10Rows(rw) ==
    SelectSeq(rw, LAMBDA x : IsDg10(x.alarm_type, x.duration_hr) /\ x.site_id # NaN)

\* the key both frames are merged on for the dg_date_ columns
Dg10JoinKey(row) == row.site_id

dg10_dates(rw, row) ==
    LET rows == SelectSeq(Dg10Rows(rw), LAMBDA x : x.site_id = Dg10JoinKey(row))
    IN SortedSeq({DayOf(x.date) : x \in Range(rows)})

\* ------------------------------------------------ justification, category
justification(matching, dates) ==
    CASE matching = "No" /\ dates # <<>> -> "False alarm"
      [] matching = "Yes" /\ dates # <<>> -> "Justify continued DGRH>10"
      [] OTHER -> ""

\* mutant: the two categories are swapped
category_of_alarm_Swapped(matching, claimed, genset) ==
    CASE matching = "No" /\ claimed > genset -> "False alarm Trigger"
      [] matching = "No" /\ claimed <= genset -> "Alarm not trigger"
      [] OTHER -> ""

\* mutant: the second label is spelled unlike the one the KPI counts
category_of_alarm_Label(matching, claimed, genset) ==
    CASE matching = "No" /\ claimed > genset -> "Alarm not trigger"
      [] matching = "No" /\ claimed <= genset -> "False alarm trigger"
      [] OTHER -> ""

category_of_alarm(matching, claimed, genset) ==
    CASE matching = "No" /\ claimed > genset -> "Alarm not trigger"
      [] matching = "No" /\ claimed <= genset -> "False alarm Trigger"
      [] OTHER -> ""

\* ---------------------------------------------------------------- summary
\* DataFrame.fillna(0) on a text cell
FillText(v) == IF v = NaN THEN Zero ELSE v

\* the rows a reference row yields in df_ref.merge(agg, how="left"): one per
\* aggregate row of its key, one (of missing values) when there is none
LeftMerge(refs, a) ==
    Flatten([i \in DOMAIN refs |->
        LET hits == {k \in a.index : k = refs[i].site_key}
        IN IF hits = {} THEN <<refs[i]>>
           ELSE [j \in 1..Cardinality(hits) |-> refs[i]]])

SummaryRow(r, m, a, rw) ==
    LET genset == AggCell(m, a, r.site_key, "G")
        mains == AggCell(m, a, r.site_key, "M")
        actual == mains + genset
        diff == r.claimed_rh - genset
        pct == pct_of_rh_difference(diff, r.claimed_rh)
        matching == matching_rh(pct, diff)
        filled == [r EXCEPT !.site_id = FillText(r.site_id)]
        dates == dg10_dates(rw, filled)
    IN [ site_id |-> FillText(r.site_id),
         site_key |-> FillText(r.site_key),
         day_difference |-> r.day_difference,
         total_available_hr |-> r.total_available_hr,
         claimed_rh |-> r.claimed_rh,
         average_dgrh |-> r.average_dgrh,
         genset_rh |-> genset,
         mains_failed_hr |-> mains,
         actual_mains_failed_hr |-> actual,
         grid_availability_pct |-> grid_availability_pct(actual, r.total_available_hr),
         rh_difference |-> diff,
         pct_of_rh_difference |-> pct,
         matching_rh |-> matching,
         dg_dates |-> dates,
         justification |-> justification(matching, dates),
         category_of_alarm |-> category_of_alarm(matching, r.claimed_rh, genset) ]

Summary(refs, m, a, rw) ==
    LET rows == LeftMerge(refs, a)
    IN [i \in DOMAIN rows |-> SummaryRow(rows[i], m, a, rw)]

\* ------------------------------------------------------------------- KPIs
\* Series.nunique(): distinct values, missing ones not counted
nunique(rows) == Cardinality({x.site_key : x \in Range(rows)} \ {NaN})

\* round(count / total * 100, 2) if total else 0, in hundredths of a percent
Pct(count, total) ==
    IF total # 0 THEN (2 * count * 10000 + total) \div (2 * total) ELSE 0

KPIs(out) ==
    LET total == nunique(out)
        match == nunique(SelectSeq(out, LAMBDA x : x.matching_rh = "Yes"))
        ant == nunique(SelectSeq(out, LAMBDA x :
                   x.matching_rh = "No" /\ x.category_of_alarm = "Alarm not trigger"))
        fat == nunique(SelectSeq(out, LAMBDA x :
                   x.matching_rh = "No" /\ x.category_of_alarm = "False alarm Trigger"))
        cont == nunique(SelectSeq(out, LAMBDA x :
                   x.justification = "Justify continued DGRH>10"))
        gt2 == nunique(SelectSeq(out, LAMBDA x :
                   x.average_dgrh.n > 2 * x.average_dgrh.d))
    IN [ total_sites |-> total,
         claimed_match_count |-> match,
         alarm_not_trigger_count |-> ant,
         false_alarm_trigger_count |-> fat,
         continued_dgrh10_count |-> cont,
         avg_dgrh_gt2_count |-> gt2,
         claimed_matching_rate_pct |-> Pct(match, total),
         alarm_not_trigger_pct |-> Pct(ant, total),
         false_alarm_trigger_pct |-> Pct(fat, total),
         avg_dgrh_gt2_pct |-> Pct(gt2, total) ]

\* ----------------------------------------------------------------- inputs
\* site identifiers as typed: "s-1" and "S_1" have the canonical key S_1,
\* "T2" has T2 and "!" has none
Site_s1 == <<"s","-","1">>
Site_S1 == <<"S","_","1">>
Site_T2 == <<"T","2">>
Site_Bang == <<"!">>

MainsFail == <<"M","a","i","n","s"," ","f","a","i","l">>
DgRunning == <<"D","G"," ","r","u","n","n","i","n","g">>
MainsFailDgRunning ==
    <<"M","a","i","n","s"," ","f","a","i","l"," ","-"," ","D","G"," ",
      "r","u","n","n","i","n","g">>
DoorOpen == <<"D","o","o","r"," ","o","p","e","n">>
Dg1On == <<"D","G","1"," ","o","n">>
GridDownGenset ==
    <<"g","r","i","d"," "," ","d","o","w","n",","," ","G","e","n","s","e","t">>
DieselGenOn == <<"d","i","e","s","e","l","g","e","n"," ","O","N">>

RefCell(site, previous, present, claimed) ==
    [ site_id |-> site, previous_refuelling_date |-> previous,
      present_refuelling_date |-> present, claimed_rh |-> claimed ]

AlarmCell(site, slogan, date, duration) ==
    [ site |-> site, alarm_slogan |-> slogan, alarm_raised_date |-> date,
      duration_hrs |-> duration ]

\* site identity: every spelling of the site on both sides
SiteRefRows == {RefCell(s, 0, 4, 20) : s \in {Site_s1, Site_S1, Site_T2, Site_Bang}}
SiteAlarmRows ==
    {AlarmCell(s, DgRunning, 2, 12) : s \in {Site_s1, Site_S1, Site_T2, Site_Bang}}
    \cup {AlarmCell(Site_S1, MainsFail, 2, 12), AlarmCell(Site_S1, DgRunning, 2, 192),
          AlarmCell(Site_S1, DgRunning, 2, 3)}

\* refuelling windows and alarm dates on, inside and outside the bounds
WindowRefRows ==
    {RefCell(Site_S1, w[1], w[2], 20) :
        w \in {<<0, 4>>, <<4, 1>>, <<1, 2>>, <<Unparseable, 4>>, <<0, Unparseable>>}}
WindowAlarmRows ==
    {AlarmCell(Site_S1, DgRunning, d, 12) : d \in {Unparseable, 0, 2, 4, 5}}
    \cup {AlarmCell(Site_T2, DgRunning, 2, 12)}

\* alarm descriptions
TagRefRows == {RefCell(Site_S1, 0, 4, 20)}
TagAlarmRows ==
    {AlarmCell(Site_S1, t, 2, 12) :
        t \in {MainsFail, DgRunning, MainsFailDgRunning, DoorOpen, Dg1On,
               GridDownGenset, DieselGenOn, NaN}}

\* claimed run hours against alarm durations
MetricRefRows ==
    {RefCell(Site_S1, w[1], w[2], c) : w \in {<<0, 4>>, <<1, 2>>}, c \in {0, 20, 200}}
MetricAlarmRows ==
    {AlarmCell(Site_S1, DgRunning, 2, d) : d \in {3, 12, 192, NonNumeric}}
    \cup {AlarmCell(Site_S1, MainsFail, 2, 12)}

\* aggregation: two sites and a site without a key, records of both types,
\* unclassified records and a record outside the window
AggRefRows == {RefCell(s, 0, 4, 20) : s \in {Site_S1, Site_T2, Site_Bang}}
AggAlarmRows ==
    {AlarmCell(Site_S1, t, 2, 12) : t \in {DgRunning, MainsFail, DoorOpen}}
    \cup {AlarmCell(Site_S1, DgRunning, 2, 3), AlarmCell(Site_s1, MainsFail, 2, 3),
          AlarmCell(Site_T2, DgRunning, 2, 192), AlarmCell(Site_S1, DgRunning, 5, 12),
          AlarmCell(Site_Bang, DgRunning, 2, 12)}

RefColumnChoices ==
    {AllRefColumns, (AllRefColumns \ {"site_id"}) \cup {"site"}}
    \cup {AllRefColumns \ {c} : c \in AllRefColumns}
AlarmColumnChoices ==
    {AllAlarmColumns} \cup {AllAlarmColumns \ {c} : c \in AllAlarmColumns}

NoFile == [columns |-> {}, rows |-> <<>>]
NoAgg == [index |-> {}, columns |-> {}]

\* the uploads: complete files of up to MaxRef and MaxAlarms rows, files of
\* at most one row with a column missing on one side, or nothing uploaded
Uploads(R, A) ==
    \/ /\ uploaded = TRUE
       /\ ref_file \in [columns : {AllRefColumns}, rows : SeqUpTo(R, MaxRef)]
       /\ main_files \in [columns : {AllAlarmColumns}, rows : SeqUpTo(A, MaxAlarms)]
    \/ /\ uploaded = TRUE
       /\ ref_file \in [columns : RefColumnChoices, rows : SeqUpTo(R, 1)]
       /\ main_files \in [columns : AlarmColumnChoices, rows : SeqUpTo(A, 1)]
       /\ ref_file.columns = AllRefColumns \/ main_files.columns = AllAlarmColumns
    \/ /\ uploaded = FALSE
       /\ ref_file = NoFile
       /\ main_files = NoFile

InitOn(R, A) ==
    /\ Uploads(R, A)
    /\ pc = "start"
    /\ error = ""
    /\ df_ref = <<>>
    /\ df_all = <<>>
    /\ merged = <<>>
    /\ agg = NoAgg
    /\ df_out = <<>>
    /\ raw = <<>>
    /\ kpi = NoKpi

Init == InitOn(SiteRefRows, SiteAlarmRows)
InitWindow == InitOn(WindowRefRows, WindowAlarmRows)
InitTag == InitOn(TagRefRows, TagAlarmRows)
InitMetrics == InitOn(MetricRefRows, MetricAlarmRows)
InitAgg == InitOn(AggRefRows, AggAlarmRows)

\* ---------------------------------------------------------------- actions
Inputs == <<uploaded, ref_file, main_files>>

\* lines 179-181: nothing to process
StopNoFiles ==
    /\ pc = "start"
    /\ ~uploaded
    /\ pc' = "stopped"
    /\ error' = "Please upload both Main file(s) and Reference file in the sidebar."
    /\ UNCHANGED <<Inputs, df_ref, df_all, merged, agg, df_out, raw, kpi>>

\* lines 183-207: Step 1/5, both files read
ReadFiles ==
    /\ pc = "start"
    /\ uploaded
    /\ pc' = "loaded"
    /\ UNCHANGED <<Inputs, error, df_ref, df_all, merged, agg, df_out, raw, kpi>>

RefSiteMissing == "site_id" \notin RefColumns(ref_file.columns)
RefClaimedMissing == "claimed_rh" \notin ref_file.columns

\* line 225 raises KeyError without a site_id column; line 237 raises
\* AttributeError without claimed_rh (to_numeric of the default 0 is a scalar)
CrashReference ==
    /\ pc = "loaded"
    /\ RefSiteMissing \/ RefClaimedMissing
    /\ pc' = "crashed"
    /\ error' = IF RefSiteMissing THEN "KeyError: 'site_id'"
                ELSE "AttributeError: 'int' object has no attribute 'fillna'"
    /\ UNCHANGED <<Inputs, df_ref, df_all, merged, agg, df_out, raw, kpi>>

\* lines 209-242
NormalizeReference ==
    /\ pc = "loaded"
    /\ ~RefSiteMissing
    /\ ~RefClaimedMissing
    /\ df_ref' = NormalizedReference(ref_file)
    /\ pc' = "reference"
    /\ UNCHANGED <<Inputs, error, df_all, merged, agg, df_out, raw, kpi>>

\* lines 259-267
StopNoDuration ==
    /\ pc = "reference"
    /\ candidates(main_files) = <<>>
    /\ pc' = "stopped"
    /\ error' = "No Duration column detected automatically."
    /\ UNCHANGED <<Inputs, df_ref, df_all, merged, agg, df_out, raw, kpi>>

\* lines 269-274
StopMissingCols ==
    /\ pc = "reference"
    /\ candidates(main_files) # <<>>
    /\ missing_cols(main_files) # <<>>
    /\ pc' = "stopped"
    /\ error' = "Missing required columns in main file(s)"
    /\ UNCHANGED <<Inputs, df_ref, df_all, merged, agg, df_out, raw, kpi>>

\* lines 244-279
ConvertMain ==
    /\ pc = "reference"
    /\ candidates(main_files) # <<>>
    /\ missing_cols(main_files) = <<>>
    /\ df_all' = ConvertedAlarms(main_files)
    /\ pc' = "validated"
    /\ UNCHANGED <<Inputs, error, df_ref, merged, agg, df_out, raw, kpi>>

\* lines 285-301: Step 3/5
MergeFilterTag ==
    /\ pc = "validated"
    /\ merged' = Windowed(df_all, df_ref)
    /\ pc' = "windowed"
    /\ UNCHANGED <<Inputs, error, df_ref, df_all, agg, df_out, raw, kpi>>

\* lines 307-393: Step 4/5
Summarise ==
    /\ pc = "windowed"
    /\ agg' = Aggregate(merged)
    /\ raw' = RawTable(merged)
    /\ df_out' = Summary(df_ref, merged, agg', raw')
    /\ pc' = "summarised"
    /\ UNCHANGED <<Inputs, error, df_ref, df_all, merged, kpi>>

\* lines 405-418 and the tabs of lines 429-503: Step 5/5
CalculateKPIs ==
    /\ pc = "summarised"
    /\ kpi' = KPIs(df_out)
    /\ pc' = "done"
    /\ UNCHANGED <<Inputs, error, df_ref, df_all, merged, agg, df_out, raw>>

Next ==
    \/ StopNoFiles
    \/ ReadFiles
    \/ CrashReference
    \/ NormalizeReference
    \/ StopNoDuration
    \/ StopMissingCols
    \/ ConvertMain
    \/ MergeFilterTag
    \/ Summarise
    \/ CalculateKPIs

Spec == Init /\ [][Next]_vars
SpecWindow == InitWindow /\ [][Next]_vars
SpecTag == InitTag /\ [][Next]_vars
SpecMetrics == InitMetrics /\ [][Next]_vars
SpecAgg == InitAgg /\ [][Next]_vars

\* ================================================================= claims
Summarised == pc \in {"summarised", "done"}
WindowedDone == pc \in {"windowed", "summarised", "done"}

\* ---------------------------------------------------------------------- C1
\* C1: every windowed alarm record whose description matches a mains-failure
\* pattern is typed "M", also when it matches a generator pattern too; one
\* matching only the generator patterns is "G", and one matching neither is
\* unclassified.
C1_MainsWinsOverGenerator ==
    \A i \in DOMAIN merged :
        LET t == merged[i].alarm_slogan
        IN merged[i].mg =
              (IF str_contains(t, mg_mains) THEN "M"
               ELSE IF str_contains(t, mg_gen) THEN "G" ELSE "NA")

\* ---------------------------------------------------------------------- C2
\* the windowed set holds a generator record of at least 10 hours for the
\* site of canonical key k
HasDg10ForKey(k) ==
    \E i \in DOMAIN merged :
        /\ merged[i].site_key = k
        /\ merged[i].mg = "G"
        /\ merged[i].duration_hrs >= DgRhThreshold

\* the reference row a summary row was made from
RefRowOf(row) ==
    CHOOSE r \in Range(df_ref) : FillText(r.site_key) = row.site_key

\* C2: for every summary row, justification is "False alarm" when
\* matching_rh = "No" and the windowed set holds a generator record of at
\* least 10 hours for the row's canonical site key, "Justify continued
\* DGRH>10" when matching_rh = "Yes" and such a record exists, and empty
\* otherwise, however the alarm spells the site.
C2_JustificationByCanonicalKey ==
    Summarised =>
        \A i \in DOMAIN df_out :
            LET row == df_out[i]
                has == HasDg10ForKey(RefRowOf(row).site_key)
            IN row.justification =
                  (IF has /\ row.matching_rh = "No" THEN "False alarm"
                   ELSE IF has /\ row.matching_rh = "Yes"
                        THEN "Justify continued DGRH>10"
                   ELSE "")

\* ---------------------------------------------------------------------- C3
AlarmColumnMissing == \E c \in Range(required_cols) : c \notin main_files.columns
NoDurationColumn == candidates(main_files) = <<>>
RefDateColumnMissing ==
    \E c \in {"previous_refuelling_date", "present_refuelling_date"} :
        c \notin ref_file.columns
Aborted == pc \in {"stopped", "crashed"}
NothingProduced ==
    /\ pc \in {"start", "loaded", "reference", "stopped", "crashed"}
    /\ merged = <<>> /\ raw = <<>> /\ df_out = <<>> /\ kpi = NoKpi
    /\ Aborted => error # ""

StopsWithErrorAndNoOutput ==
    /\ raw = <<>> /\ df_out = <<>> /\ kpi = NoKpi
    /\ pc \in {"stopped", "crashed", "done"} => (Aborted /\ error # "")

C4_DayDifferenceNeverNegative ==
    \A i \in DOMAIN df_ref :
        LET r == df_ref[i]
            prev == r.previous_refuelling_date
            pres == r.present_refuelling_date
        IN /\ r.day_difference >= 0
           /\ (prev = NaT \/ pres = NaT) => r.day_difference = 0
           /\ (prev # NaT /\ pres # NaT /\ pres < prev) => r.day_difference = 0
           /\ r.total_available_hr = r.day_difference * HoursPerDay
           /\ r.total_available_hr >= 0
           /\ r.day_difference = 0 => r.average_dgrh.n = 0

\* ---------------------------------------------------------------------- C5
AlarmFields(m) ==
    [ site |-> m.site, alarm_slogan |-> m.alarm_slogan,
      alarm_raised_date |-> m.alarm_raised_date,
      duration_hrs |-> m.duration_hrs, site_key |-> m.site_key ]

InsideWindowOf(a, r) ==
    LET d == a.alarm_raised_date
    IN /\ r.site_key = a.site_key
       /\ d # NaT
       /\ r.previous_refuelling_date # NaT
       /\ r.present_refuelling_date # NaT
       /\ r.previous_refuelling_date <= d
       /\ d <= r.present_refuelling_date

Retained(a) == \E r \in Range(df_ref) : InsideWindowOf(a, r)

\* C5: the windowed set is exactly the alarm records whose canonical key is
\* that of a row of the deduplicated reference table and whose timestamp lies
\* in [previous_refuelling_date, present_refuelling_date], both bounds
\* included; a record with a missing timestamp, a site with a missing bound
\* and a site without a reference row are never retained.
C5_WindowFilter ==
    WindowedDone =>
        /\ [i \in DOMAIN merged |-> AlarmFields(merged[i])]
              = SelectSeq(df_all, Retained)
        /\ \A i \in DOMAIN merged :
              /\ merged[i].alarm_raised_date # NaT
              /\ merged[i].previous_refuelling_date # NaT
              /\ merged[i].present_refuelling_date # NaT
              /\ \E r \in Range(df_ref) : r.site_key = merged[i].site_key

\* a record dated on the lower bound and one dated on the upper bound are
\* retained while another record of the run is dropped
C5_Witness ==
    /\ pc = "windowed"
    /\ \E i \in DOMAIN merged :
          merged[i].alarm_raised_date = merged[i].previous_refuelling_date
    /\ Len(merged) < Len(df_all)
    /\ Len(df_ref) < Len(ref_file.rows)

\* ---------------------------------------------------------------------- C6
\* the first reference row of each canonical key, straight from the file
FirstOfKey(i) ==
    \A j \in 1..(i - 1) :
        normalize_site(ref_file.rows[j].site_id)
            # normalize_site(ref_file.rows[i].site_id)

RefFileKeys == {normalize_site(r.site_id) : r \in Range(ref_file.rows)}

\* C6: after all merges the summary table has exactly one row for every
\* canonical site key of the reference table, made from the first row of that
\* key, whether or not an alarm matched it, and no row for any other site (a
\* missing key is one key, written 0 by fillna).
C6_JoinCompleteness ==
    Summarised =>
        /\ \A k \in RefFileKeys :
              Cardinality({i \in DOMAIN df_out : df_out[i].site_key = FillText(k)}) = 1
        /\ \A i \in DOMAIN df_out :
              \E j \in DOMAIN ref_file.rows :
                  /\ FirstOfKey(j)
                  /\ df_out[i].site_key = FillText(normalize_site(ref_file.rows[j].site_id))
                  /\ df_out[i].site_id = FillText(ref_file.rows[j].site_id)

\* two reference rows of one key, an alarm of a site the reference lacks, and
\* a summary of one row with no alarm matched
C6_Witness ==
    /\ pc = "summarised"
    /\ Len(ref_file.rows) = 2
    /\ Len(df_out) = 1
    /\ df_all # <<>>
    /\ merged = <<>>

\* ---------------------------------------------------------------------- C7
\* C7: for every summary row, matching_rh = "Yes" if and only if
\* |rh_difference| <= 5 or claimed_rh # 0 and |rh_difference / claimed_rh * 100|
\* <= 5, where rh_difference = claimed_rh - genset_rh; with claimed_rh = 0 the
\* absolute difference alone decides; otherwise matching_rh = "No".
C7_MatchingVerdict ==
    Summarised =>
        \A i \in DOMAIN df_out :
            LET row == df_out[i]
                diff == row.claimed_rh - row.genset_rh
                yes == \/ Abs(diff) <= 5
                       \/ /\ row.claimed_rh # 0
                          /\ Abs(diff) * 100 <= 5 * Abs(row.claimed_rh)
            IN /\ row.rh_difference = diff
               /\ row.matching_rh = (IF yes THEN "Yes" ELSE "No")
               /\ row.claimed_rh = 0 => row.pct_of_rh_difference = NaNf

\* a site matched by the percentage alone: 200 hours claimed, 192 found
C7_Witness ==
    /\ Summarised
    /\ \E i \in DOMAIN df_out :
          /\ df_out[i].matching_rh = "Yes"
          /\ Abs(df_out[i].rh_difference) > 5
          /\ df_out[i].genset_rh > 0

\* ---------------------------------------------------------------------- C8
\* C8: for every summary row, category_of_alarm is empty exactly when
\* matching_rh = "Yes"; when matching_rh = "No" it is "Alarm not trigger" if
\* claimed_rh > genset_rh and "False alarm Trigger" if claimed_rh <= genset_rh.
C8_CategoryOfAlarm ==
    Summarised =>
        \A i \in DOMAIN df_out :
            LET row == df_out[i]
            IN /\ (row.category_of_alarm = "") <=> (row.matching_rh = "Yes")
               /\ (row.matching_rh = "No" /\ row.claimed_rh > row.genset_rh)
                     => row.category_of_alarm = "Alarm not trigger"
               /\ (row.matching_rh = "No" /\ row.claimed_rh <= row.genset_rh)
                     => row.category_of_alarm = "False alarm Trigger"

\* a non-matching site whose alarms exceed a positive claim
C8_Witness ==
    /\ Summarised
    /\ \E i \in DOMAIN df_out :
          /\ df_out[i].category_of_alarm = "False alarm Trigger"
          /\ df_out[i].matching_rh = "No"
          /\ df_out[i].claimed_rh > 0

\* ---------------------------------------------------------------------- C9
\* C9: claimed_match_count + alarm_not_trigger_count + false_alarm_trigger_count
\* = total_sites, total_sites being the number of summary rows, and every
\* percentage KPI is 0 when total_sites is 0.
C9_KpiConsistency ==
    pc = "done" =>
        /\ kpi.total_sites = Len(df_out)
        /\ kpi.claimed_match_count + kpi.alarm_not_trigger_count
              + kpi.false_alarm_trigger_count = kpi.total_sites
        /\ kpi.total_sites = 0 =>
              /\ kpi.claimed_matching_rate_pct = 0
              /\ kpi.alarm_not_trigger_pct = 0
              /\ kpi.false_alarm_trigger_pct = 0
              /\ kpi.avg_dgrh_gt2_pct = 0

\* a matched site and an "Alarm not trigger" site, one of them without a
\* canonical key
C9_Witness ==
    /\ pc = "done"
    /\ kpi.total_sites = 2
    /\ kpi.claimed_match_count = 1
    /\ kpi.alarm_not_trigger_count = 1
    /\ \E i \in DOMAIN df_out : df_out[i].site_key = Zero

\* --------------------------------------------------------------------- C10
\* C10: for every summary row, grid_availability_pct is a number in [0, 100]
\* equal to (1 - actual_mains_failed_hr / total_available_hr) * 100 clamped to
\* [0, 100], with actual_mains_failed_hr = mains_failed_hr + genset_rh, and it
\* is 0 when total_available_hr is 0, actual_mains_failed_hr being zero or
\* positive.
C10_GridAvailability ==
    Summarised =>
        \A i \in DOMAIN df_out :
            LET row == df_out[i]
                g == row.grid_availability_pct
                t == row.total_available_hr
                a == row.actual_mains_failed_hr
            IN /\ a = row.mains_failed_hr + row.genset_rh
               /\ g.k = "num" /\ g.d > 0
               /\ 0 <= g.n /\ g.n <= 100 * g.d
               /\ (t = 0 /\ a >= 0) => g.n = 0
               /\ (t > 0 /\ a >= t) => g.n = 0
               /\ (t > 0 /\ a <= 0) => g.n = 100 * g.d
               /\ (t > 0 /\ 0 < a /\ a < t) => g.n * t = (t - a) * 100 * g.d
               /\ (t < 0 /\ a >= 0) => g.n = 100 * g.d

\* a site with no available hour and both mains and generator alarm hours
C10_Witness ==
    /\ Summarised
    /\ \E i \in DOMAIN df_out :
          /\ df_out[i].total_available_hr = 0
          /\ df_out[i].mains_failed_hr > 0
          /\ df_out[i].genset_rh > 0
          /\ df_out[i].grid_availability_pct = Num(0, 1)

\* --------------------------------------------------------------------- C11
\* the alarm records of the run typed tag that lie inside the refuelling
\* window of the reference site of canonical key k, each taken once from the
\* alarm input; a missing key is the key of no record
WindowedOf(k, tag) ==
    SelectSeq(df_all, LAMBDA a : /\ k # NaN
                                 /\ a.site_key = k
                                 /\ Retained(a)
                                 /\ mg(a.alarm_slogan) = tag)

WindowedHours(k, tag) ==
    LET rows == WindowedOf(k, tag)
    IN SumSeq([i \in DOMAIN rows |-> rows[i].duration_hrs])

\* the windowed records of every valid key that carry a type
ClassifiedWindowed ==
    SelectSeq(df_all, LAMBDA a : /\ a.site_key # NaN
                                 /\ Retained(a)
                                 /\ mg(a.alarm_slogan) \in {"M", "G"})

\* C11: for every reference site, generator-hours is the sum of the durations
\* of the windowed records of its canonical key typed generator and
\* mains-failure-hours the sum of those typed mains; the totals of all sites
\* add up to the durations of the classified windowed records, so a record is
\* counted once and an unclassified one nowhere; a site, or a whole run (no
\* such column in the aggregate), without a record of a type has the total 0,
\* a number, and the derived columns are computed from these totals.
C11_Aggregation ==
    Summarised =>
        /\ \A i \in DOMAIN df_out :
              LET row == df_out[i]
                  k == RefRowOf(row).site_key
              IN /\ row.genset_rh = WindowedHours(k, "G")
                 /\ row.mains_failed_hr = WindowedHours(k, "M")
                 /\ row.genset_rh \in Nat
                 /\ row.mains_failed_hr \in Nat
                 /\ row.actual_mains_failed_hr
                       = WindowedHours(k, "M") + WindowedHours(k, "G")
                 /\ row.rh_difference = row.claimed_rh - WindowedHours(k, "G")
        /\ SumSeq([i \in DOMAIN df_out |->
                      df_out[i].genset_rh + df_out[i].mains_failed_hr])
              = SumSeq([i \in DOMAIN ClassifiedWindowed |->
                          ClassifiedWindowed[i].duration_hrs])
        /\ \A tag \in {"M", "G"} :
              tag \in agg.columns
                  <=> \E a \in Range(ClassifiedWindowed) : mg(a.alarm_slogan) = tag

\* one site's generator-hours add two records, another site has no record,
\* and the run has no mains record at all
C11_Witness ==
    /\ Summarised
    /\ Len(df_out) = 2
    /\ Len(WindowedOf(Site_S1, "G")) = 2
    /\ \E i \in DOMAIN df_out : df_out[i].genset_rh = 15
    /\ \E i \in DOMAIN df_out : df_out[i].genset_rh = 0
    /\ "M" \notin agg.columns
    /\ \A i \in DOMAIN df_out : df_out[i].mains_failed_hr = 0

\* --------------------------------------------------------------------- C12
\* the hours the windowed records of a valid key add to a summary row
HoursOfValidKey(row) ==
    LET rows == SelectSeq(merged, LAMBDA x : /\ x.site_key # NaN
                                             /\ FillText(x.site_key) = row.site_key
                                             /\ x.mg \in {"M", "G"})
    IN SumSeq([i \in DOMAIN rows |-> rows[i].duration_hrs])

\* C12: a missing canonical site key never acts as a join key: no record of
\* the windowed set and no row of the raw alarm table comes from an alarm
\* record whose site identifier canonicalizes to missing, also when a
\* reference row canonicalizes to missing too, and such a record adds nothing
\* to the totals of any site.
C12_MissingKeyNeverJoins ==
    /\ WindowedDone =>
          \A i \in DOMAIN merged :
              /\ merged[i].site_key # NaN
              /\ normalize_site(merged[i].site) # NaN
    /\ Summarised =>
          /\ \A i \in DOMAIN raw : normalize_site(raw[i].site_id) # NaN
          /\ \A i \in DOMAIN df_out :
                df_out[i].genset_rh + df_out[i].mains_failed_hr
                    = HoursOfValidKey(df_out[i])

====
